---- MODULE Spec2Model ----
(***************************************************************************)
(* dial_server (src/src/main.rs): SSDP advertisement broadcast, discovery  *)
(* listener and descriptor server.                                         *)
(*                                                                         *)
(* Texts are sequences of tokens.  The delimiter characters the program    *)
(* splits on (space, colon, carriage return, line feed) are tokens of      *)
(* their own; every other token is a maximal run of other characters.  A   *)
(* byte that is not valid UTF-8 is the token BAD.                          *)
(***************************************************************************)
EXTENDS Integers, Sequences, FiniteSets, TLC

SP == " "
COLON == ":"
CR == "<CR>"
LF == "<LF>"
BAD == "<0xFF>"

\* ------------------------------------------------------------------ texts

IsDelim(t) == t \in { SP, COLON, CR, LF, BAD }

\* a followed by b; two runs of ordinary characters that meet become one token
cat(a, b) ==
    IF a # <<>> /\ b # <<>> /\ ~IsDelim(a[Len(a)]) /\ ~IsDelim(Head(b))
    THEN SubSeq(a, 1, Len(a) - 1) \o << a[Len(a)] \o Head(b) >> \o Tail(b)
    ELSE a \o b

\* format!: the literal pieces and the arguments, in order
RECURSIVE format(_)
format(pieces) == IF pieces = <<>> THEN <<>> ELSE cat(Head(pieces), format(Tail(pieces)))

Range(s) == { s[i] : i \in 1..Len(s) }

\* std::str::from_utf8: Ok iff every byte sequence is valid
from_utf8_ok(bytes) == BAD \notin Range(bytes)

\* first index >= i at which pat occurs in s, 0 if none
RECURSIVE FindFrom(_, _, _)
FindFrom(s, pat, i) ==
    IF i + Len(pat) - 1 > Len(s) THEN 0
    ELSE IF SubSeq(s, i, i + Len(pat) - 1) = pat THEN i
    ELSE FindFrom(s, pat, i + 1)

\* str::split(pat): the pieces between the occurrences of pat (empty pieces kept)
RECURSIVE split(_, _)
split(s, pat) ==
    LET k == FindFrom(s, pat, 1)
    IN  IF k = 0 THEN << s >>
        ELSE << SubSeq(s, 1, k - 1) >> \o split(SubSeq(s, k + Len(pat), Len(s)), pat)

\* one piece of split_inclusive('\n'): a trailing "\n" is dropped and then, if
\* a "\n" was dropped, one "\r" before it
StripLineEnding(piece) ==
    IF piece # <<>> /\ piece[Len(piece)] = LF
    THEN LET p == SubSeq(piece, 1, Len(piece) - 1)
         IN  IF p # <<>> /\ p[Len(p)] = CR THEN SubSeq(p, 1, Len(p) - 1) ELSE p
    ELSE piece

\* str::lines(): lines end in "\n" or "\r\n"; the final line ending is optional
RECURSIVE lines(_)
lines(s) ==
    IF s = <<>> THEN <<>>
    ELSE LET k == FindFrom(s, << LF >>, 1)
         IN  IF k = 0 THEN << s >>
             ELSE << StripLineEnding(SubSeq(s, 1, k)) >> \o lines(SubSeq(s, k + 1, Len(s)))

\* ------------------------------------------------------- message builder

\* what the datagram socket was given to send to its peer: one sequence of
\* texts for each call of broadcast_creation
VARIABLE wire

\* the identifier made anew by every call of broadcast_creation after the first
ROOT_DEVICE_UUID_regenerated ==
    IF Len(wire) <= 1 THEN << "170ba466-59ac-4039-a457-0fab725b60ff" >>
    ELSE << "5c1d2e3f-0000-4000-8000-000000000002" >>

ROOT_DEVICE_UUID == << "170ba466-59ac-4039-a457-0fab725b60ff" >>

\* http::HeaderName: header names are normalised to lower case when a name
\* is put into the builder's HeaderMap
HeaderName(name) ==
    CASE name = "HOST" -> "host"
      [] name = "CACHE-CONTROL" -> "cache-control"
      [] name = "LOCATION" -> "location"
      [] name = "NT" -> "nt"
      [] name = "NTS" -> "nts"
      [] name = "SERVER" -> "server"
      [] name = "USN" -> "usn"
      [] OTHER -> name

\* http::Request::builder().method("NOTIFY").uri("*").version(HTTP_11)
builder == [method |-> "NOTIFY", uri |-> "*", version |-> "HTTP/1.1", headers |-> << >>]

\* Builder::header(name, value): appends the entry to the header map
header(request, name, value) ==
    [request EXCEPT !.headers = Append(@, [name |-> HeaderName(name), value |-> value])]

HostValue == << "239.255.255.250", COLON, "1900" >>
CacheControlValue == << "max-age", SP, "=", SP, "900" >>
NtsValue == << "ssdp", COLON, "alive" >>
ServerValue == << "Linus/Arch", SP, "UPnP/1.0", SP, "Linus_Listener/1.0" >>
RootDeviceNt == << "upnp", COLON, "rootdevice" >>
UrnSchemasDevice == << "urn", COLON, "schemas-upnp-org", COLON, "device", COLON >>
UrnSchemasService == << "urn", COLON, "schemas-upnp-org", COLON, "service", COLON >>

\* the operations of the broadcast, in program order
SendOp(request) == [op |-> "send", request |-> request]
SleepOp == [op |-> "sleep", request |-> builder]

\* messages 1 to 3, each followed by a sleep except the last
broadcast_root_device_to_network(root_device_url) ==
    LET uuid_nt1 == RootDeviceNt
        uuid_usn1 == format(<< << "uuid", COLON, COLON >>, ROOT_DEVICE_UUID,
                               << COLON, COLON >>, RootDeviceNt >>)
        request1 ==
            header(header(header(header(header(header(header(builder,
                "HOST", HostValue),
                "cache-control", CacheControlValue),
                "LOCATION", root_device_url),
                "NT", uuid_nt1),
                "USN", uuid_usn1),
                "NTS", NtsValue),
                "SERVER", ServerValue)
        uuid_nt2 == format(<< << "uuid", COLON, COLON >>, ROOT_DEVICE_UUID >>)
        uuid_usn2 == format(<< << "uuid", COLON, COLON >>, ROOT_DEVICE_UUID >>)
        request2 ==
            header(header(header(header(header(header(header(builder,
                "HOST", HostValue),
                "cache-control", CacheControlValue),
                "LOCATION", root_device_url),
                "NT", uuid_nt2),
                "NTS", NtsValue),
                "SERVER", ServerValue),
                "USN", uuid_usn2)
        uuid_nt3 == format(<< UrnSchemasDevice, << "Basic", COLON, "1" >> >>)
        uuid_usn3 == format(<< << "uuid", COLON >>, ROOT_DEVICE_UUID, << COLON, COLON >>,
                               UrnSchemasDevice, << "Basic", COLON, "1" >> >>)
        request3 ==
            header(header(header(header(header(header(header(builder,
                "HOST", HostValue),
                "cache-control", CacheControlValue),
                "LOCATION", root_device_url),
                "NT", uuid_nt3),
                "NTS", NtsValue),
                "SERVER", ServerValue),
                "USN", uuid_usn3)
    IN  << SendOp(request1), SleepOp, SendOp(request2), SleepOp, SendOp(request3) >>

\* the device's two messages, with one sleep between them
broadcast_device_to_network(root_device_url) ==
    LET uuid_nt1 == format(<< << "uuid", COLON, COLON >>, ROOT_DEVICE_UUID >>)
        uuid_usn1 == format(<< << "uuid", COLON, COLON >>, ROOT_DEVICE_UUID >>)
        request1 ==
            header(header(header(header(header(header(header(builder,
                "HOST", HostValue),
                "cache-control", CacheControlValue),
                "LOCATION", root_device_url),
                "NT", uuid_nt1),
                "NTS", NtsValue),
                "SERVER", ServerValue),
                "USN", uuid_usn1)
        uuid_nt2 == format(<< UrnSchemasDevice, << "Basic", COLON, "1" >> >>)
        uuid_usn2 == format(<< << "uuid", COLON >>, ROOT_DEVICE_UUID, << COLON, COLON >>,
                               UrnSchemasDevice, << "Basic", COLON, "1" >> >>)
        request2 ==
            header(header(header(header(header(header(header(builder,
                "HOST", HostValue),
                "cache-control", CacheControlValue),
                "LOCATION", root_device_url),
                "NT", uuid_nt2),
                "NTS", NtsValue),
                "SERVER", ServerValue),
                "USN", uuid_usn2)
    IN  << SendOp(request1), SleepOp, SendOp(request2) >>

\* variant: the service message with another max-age and without NTS
broadcast_service_type_other_headers(root_device_url) ==
    LET uuid_nt == format(<< UrnSchemasService, << "RenderingControl", COLON, "1" >> >>)
        uuid_usn == format(<< << "uuid", COLON >>, ROOT_DEVICE_UUID, << COLON, COLON >>,
                              UrnSchemasService, << "RenderingControl", COLON, "1" >> >>)
        request1 ==
            header(header(header(header(header(header(builder,
                "HOST", HostValue),
                "cache-control", << "max-age=1800" >>),
                "LOCATION", root_device_url),
                "NT", uuid_nt),
                "SERVER", ServerValue),
                "USN", uuid_usn)
    IN  << SendOp(request1) >>

\* the one service message
broadcast_service_type_to_network(root_device_url) ==
    LET uuid_nt == format(<< UrnSchemasService, << "RenderingControl", COLON, "1" >> >>)
        uuid_usn == format(<< << "uuid", COLON >>, ROOT_DEVICE_UUID, << COLON, COLON >>,
                              UrnSchemasService, << "RenderingControl", COLON, "1" >> >>)
        request1 ==
            header(header(header(header(header(header(header(builder,
                "HOST", HostValue),
                "cache-control", CacheControlValue),
                "LOCATION", root_device_url),
                "NT", uuid_nt),
                "NTS", NtsValue),
                "SERVER", ServerValue),
                "USN", uuid_usn)
    IN  << SendOp(request1) >>

\* variant: the service helper is never called
broadcast_creation_without_service(root_device_url) ==
    broadcast_root_device_to_network(root_device_url)
        \o broadcast_device_to_network(root_device_url)

\* the sends and sleeps of broadcast_creation between connect and
\* set_broadcast(false): the three helpers, one after the other
broadcast_creation(root_device_url) ==
    broadcast_root_device_to_network(root_device_url)
        \o broadcast_device_to_network(root_device_url)
        \o broadcast_service_type_to_network(root_device_url)

\* parse_request_to_string: the request line, one "name: value" line for each
\* entry of the header map, and an empty line, all ended by "\r\n"
RECURSIVE header_lines(_)
header_lines(headers) ==
    IF headers = << >> THEN << >>
    ELSE << Head(headers).name, COLON, SP >> \o Head(headers).value \o << CR, LF >>
            \o header_lines(Tail(headers))

parse_request_to_string(request) ==
    << request.method, SP, request.uri, SP, request.version, CR, LF >>
        \o header_lines(request.headers) \o << CR, LF >>

\* variant: the result of the send is dropped
send_result_ignored(ok) == "next"

\* the `?` after a send: Ok goes on, Err returns the error to the caller
send_result(ok) == IF ok THEN "next" ELSE "return_err"

\* ------------------------------------------------------ discovery listener

local_ip == << "192.168.178.9" >>

\* format!("http://{}/", local_ip)
root_device_url == format(<< << "http", COLON, "//" >>, local_ip, << "/" >> >>)

StValue ==
    << "urn", COLON, "dial-multiscreen-org", COLON, "service", COLON, "dial", COLON, "1" >>

\* the line the listener looks for
StLine == << "ST", COLON, SP >> \o StValue

\* the response text of the listener: a literal whose lines end in "\n"
search_response ==
    format(<< << "HTTP/1.1", SP, "200", SP, "OK", LF,
                 "LOCATION", COLON, SP, "http", COLON, "//" >>, local_ip,
              << COLON, "8081/upnp_device_descriptor.xml", LF >>,
              StLine, << LF >>,
              << "USN", COLON, SP, "testing-laptop", LF >> >>)

\* for line in msg.lines() { if line == "ST: ..." { header_found = true } }
RECURSIVE scan_lines(_, _)
scan_lines(ls, header_found) ==
    IF ls = <<>> THEN header_found
    ELSE scan_lines(Tail(ls), IF Head(ls) = StLine THEN TRUE ELSE header_found)

\* variant: the send_to inside the loop over the lines, one for each match
RECURSIVE reply_each_line(_, _)
reply_each_line(ls, src_addr) ==
    IF ls = << >> THEN << >>
    ELSE (IF Head(ls) = StLine THEN << src_addr >> ELSE << >>)
            \o reply_each_line(Tail(ls), src_addr)

handle_datagram_each_line(data, src_addr) ==
    IF ~from_utf8_ok(data) THEN << >> ELSE reply_each_line(lines(data), src_addr)

\* variant: every datagram that decodes is answered, whatever its lines
handle_datagram_any_text(data, src_addr) ==
    IF ~from_utf8_ok(data) THEN << >> ELSE << src_addr >>

\* the send_to calls one datagram causes: the destination of each, in order
handle_datagram(data, src_addr) ==
    IF ~from_utf8_ok(data) THEN << >>
    ELSE IF scan_lines(lines(data), FALSE) THEN << src_addr >>
    ELSE << >>

\* `.expect(..)` on the result of send_to: an error panics
send_to_result(ok) == IF ok THEN "loop" ELSE "panic"

\* ------------------------------------------------------ descriptor server

\* line.split(": ").collect()
header_words(line) == split(line, << COLON, SP >>)

\* HashMap::insert: the value of an earlier entry with the same key is replaced
insert(headers, key, value) ==
    { h \in headers : h[1] # key } \cup { << key, value >> }

\* lines.for_each(..): an empty line is passed over, a line of two words is
\* entered under its first word, any other line is reported and dropped
RECURSIVE for_each_line(_, _)
for_each_line(ls, headers) ==
    IF ls = << >> THEN headers
    ELSE LET line == Head(ls)
             words == header_words(line)
         IN  for_each_line(Tail(ls),
                 IF line # << >> /\ Len(words) = 2
                 THEN insert(headers, words[1], words[2]) ELSE headers)

\* the headers a connection's task reads from a text: the lines after the first
parse_headers(text) ==
    IF lines(text) = << >> THEN { } ELSE for_each_line(Tail(lines(text)), { })

\* what a task holds in place of the file contents
NoFile == << "(no file)" >>
NotOpened == << "(not opened)" >>

landing_page ==
    << "HTTP/1.1", SP, "200", SP, "OK", LF,
       "Connection", COLON, SP, "Keep-Alive", LF,
       "Access-Control-Allow-Origin", COLON, SP, "*", LF,
       "Content-Type", COLON, SP, "text/html;", SP, "charset=utf-8", LF,
       LF,
       "<html>", LF, "<body>TEST</body>", LF, "</html>" >>

\* format!("HTTP/1.1 200 OK\ncontent-type: application/xml\n\n{}", xml_content)
xml_response(xml_content) ==
    format(<< << "HTTP/1.1", SP, "200", SP, "OK", LF,
                 "content-type", COLON, SP, "application/xml", LF,
                 LF >>, xml_content >>)

not_found == << "HTTP/1.1", SP, "404", SP, "Not", SP, "Found" >>

DescriptorPath == << "/upnp_device_descriptor.xml" >>

\* variant: the method is not looked at
route_any_method(method, path, file) ==
    IF path = << "/" >>
    THEN [kind |-> "respond", resp |-> landing_page, file |-> NotOpened]
    ELSE IF path = DescriptorPath
    THEN IF file = NoFile
         THEN [kind |-> "panic", resp |-> << >>, file |-> NoFile]
         ELSE [kind |-> "respond", resp |-> xml_response(file), file |-> file]
    ELSE [kind |-> "respond", resp |-> not_found, file |-> NotOpened]

\* the if / else if / else that chooses the response; file is what
\* ./src/desc.xml holds when it is opened, NoFile when it cannot be read
route(method, path, file) ==
    IF path = << "/" >> /\ method = << "GET" >>
    THEN [kind |-> "respond", resp |-> landing_page, file |-> NotOpened]
    ELSE IF path = DescriptorPath /\ method = << "GET" >>
    THEN IF file = NoFile
         THEN [kind |-> "panic", resp |-> << >>, file |-> NoFile]
         ELSE [kind |-> "respond", resp |-> xml_response(file), file |-> file]
    ELSE [kind |-> "respond", resp |-> not_found, file |-> NotOpened]

\* one pass of the connection's loop from the bytes read to the response
handle_request(buf, file) ==
    IF ~from_utf8_ok(buf)
    THEN [kind |-> "return", resp |-> << >>, file |-> NotOpened]
    ELSE LET ls == lines(buf)
         IN  IF ls = << >>
             THEN [kind |-> "return", resp |-> << >>, file |-> NotOpened]
             ELSE LET words == split(ls[1], << SP >>)
                  IN  IF Len(words) < 3
                      THEN [kind |-> "panic", resp |-> << >>, file |-> NotOpened]
                      ELSE route(words[1], words[2], file)

\* variant: a connection that can still be written after shutdown
write_outcomes_keep_alive(wshut) ==
    { "ok", "writable_err", "write_err", "flush_err", "shutdown_err" }

\* what writable / write_all / flush / shutdown can do on a connection whose
\* write half is open or already shut down
write_outcomes(wshut) ==
    IF wshut THEN { "write_err", "writable_err" }
    ELSE { "ok", "writable_err", "write_err", "flush_err", "shutdown_err" }

\* variant: the connection handled inside the accept loop, not in a task
task_panic_in_accept_loop(acceptor) == "panicked"

\* a panic inside a spawned connection task ends that task alone
task_panic(acceptor) == acceptor

\* ------------------------------------------------------------------ inputs

CRLF == << CR, LF >>
SearchLine == << "M-SEARCH", SP, "*", SP, "HTTP/1.1" >>
HostLine == << "HOST", COLON, SP >> \o HostValue

\* scenario A: a search for the DIAL service
DgramDial == SearchLine \o CRLF \o HostLine \o CRLF \o StLine \o CRLF \o CRLF
\* scenario B: a search for another target
DgramRootDevice ==
    SearchLine \o CRLF \o HostLine \o CRLF \o << "ST", COLON, SP >> \o RootDeviceNt
        \o CRLF \o CRLF
\* no ST line at all
DgramNoSt == SearchLine \o CRLF \o HostLine \o CRLF \o CRLF
\* the ST line twice, "\n" line endings
DgramTwice == SearchLine \o << LF >> \o StLine \o << LF >> \o StLine \o << LF, LF >>
\* the key in lower case; the value followed by a space
DgramLowerKey == SearchLine \o CRLF \o << "st", COLON, SP >> \o StValue \o CRLF \o CRLF
DgramTrailing == SearchLine \o CRLF \o StLine \o << SP >> \o CRLF \o CRLF
\* a first line of one token, then the ST line
DgramShort == << "M-SEARCH" >> \o CRLF \o StLine \o CRLF \o CRLF
\* the ST line as the first and only line
DgramStFirst == StLine \o CRLF
\* bytes that are not UTF-8, the ST line among them
DgramBadUtf8 == << BAD >> \o CRLF \o StLine \o CRLF \o CRLF

\* the program's own advertisements, looped back by the multicast group
OwnNotifies ==
    { parse_request_to_string(o.request) :
        o \in { p \in Range(broadcast_creation(root_device_url)) : p.op = "send" } }

Datagrams ==
    { DgramDial, DgramRootDevice, DgramNoSt, DgramTwice, DgramLowerKey, DgramTrailing,
      DgramShort, DgramStFirst, DgramBadUtf8 } \cup OwnNotifies

Addrs == { "10.0.0.5:51000", "10.0.0.6:0", "192.168.178.9:1900" }

StreamRequest(method, path) == << method, SP, path, SP, "HTTP/1.1" >> \o CRLF \o CRLF

Requests ==
    { StreamRequest("GET", "/"),
      StreamRequest("GET", "/upnp_device_descriptor.xml"),
      StreamRequest("GET", "/nope"),
      StreamRequest("POST", "/"),
      StreamRequest("POST", "/upnp_device_descriptor.xml"),
      << "GET", SP, "/" >> \o CRLF \o CRLF,
      << "GET", SP, BAD, SP, "HTTP/1.1" >> \o CRLF \o CRLF }

Files == { NoFile, << "<root/>" >>, << "<root>", LF, "</root>", LF >> }

\* handler tasks that exist at the same time
MaxConns == 2
Conns == 1..MaxConns

\* --------------------------------------------------------------- the state

VARIABLES
    mainpc,     \* where main is: "bind", "tcp_bind", "spawn", "set_broadcast",
                \* "connect", "broadcast", "set_broadcast_false", "recv",
                \* "exited" (main returned Err), or the message of its panic
    bidx,       \* the next operation of broadcast_creation
    udp,        \* the datagram socket: broadcast option and connected peer
    bcastLog,   \* the sends (with their results) and sleeps of the broadcast so
                \* far, each named by its place in broadcast_creation
    lastDgram,  \* the datagram the listener handled last
    responses,  \* the send_to calls made for it
    tcpBound,   \* the stream listener is bound to 0.0.0.0:8081
    accpc,      \* the accept task: "none", "accept", "panicked"
    conn        \* the connection tasks

vars == << mainpc, bidx, udp, wire, bcastLog, lastDgram, responses, tcpBound, accpc, conn >>
mainVars == << mainpc, bidx, udp, wire, bcastLog, lastDgram, responses, tcpBound >>

NoDgram == [data |-> << >>, src |-> "none"]
MulticastPeer == "239.255.255.250:1900"

IdleConn ==
    [pc |-> "idle", req |-> << >>, file |-> NotOpened, resp |-> << >>,
     nresp |-> 0, wshut |-> FALSE]

Init ==
    /\ mainpc = "bind"
    /\ bidx = 1
    /\ udp = [bound |-> FALSE, broadcast |-> FALSE, peer |-> "none"]
    /\ wire = << >>
    /\ bcastLog = << >>
    /\ lastDgram = NoDgram
    /\ responses = << >>
    /\ tcpBound = FALSE
    /\ accpc = "none"
    /\ conn = [c \in Conns |-> IdleConn]

\* the messages of main's panics
PanicJoin == "panic: Failed to join multicast"
PanicSetBroadcast == "panic: set_broadcast call failed"
PanicSetBroadcastFalse == "panic: set_broadcast(false) call failed"
PanicRecv == "panic: didn't receive data"
PanicRespond == "panic: failed to respond"
MainPanics ==
    { PanicJoin, PanicSetBroadcast, PanicSetBroadcastFalse, PanicRecv, PanicRespond }

\* the runtime lives as long as main has neither returned nor panicked
MainDone == mainpc \in { "exited" } \cup MainPanics

\* ------------------------------------------------------------ main: setup

\* UdpSocket::bind(..)?, join_multicast_v4(..).expect(..), set_multicast_loop_v4(..)?
BindUdp ==
    /\ mainpc = "bind"
    /\ \E outcome \in { "ok", "err", "panic" } :
         /\ mainpc' = CASE outcome = "ok" -> "tcp_bind"
                        [] outcome = "err" -> "exited"
                        [] OTHER -> PanicJoin
         /\ udp' = IF outcome = "err" THEN udp ELSE [udp EXCEPT !.bound = TRUE]
    /\ UNCHANGED << bidx, wire, bcastLog, lastDgram, responses, tcpBound, accpc, conn >>

\* TcpListener::bind("0.0.0.0:8081").await?
BindTcp ==
    /\ mainpc = "tcp_bind"
    /\ \E ok \in BOOLEAN :
         /\ mainpc' = IF ok THEN "spawn" ELSE "exited"
         /\ tcpBound' = ok
    /\ UNCHANGED << bidx, udp, wire, bcastLog, lastDgram, responses, accpc, conn >>

\* variant: main goes on to the broadcast and the accept loop is not spawned
SpawnAccept_skipped ==
    /\ mainpc = "spawn"
    /\ mainpc' = "set_broadcast"
    /\ UNCHANGED << bidx, udp, wire, bcastLog, lastDgram, responses, tcpBound, accpc, conn >>

\* tokio::spawn of the accept loop
SpawnAccept ==
    /\ mainpc = "spawn"
    /\ mainpc' = "set_broadcast"
    /\ accpc' = "accept"
    /\ UNCHANGED << bidx, udp, wire, bcastLog, lastDgram, responses, tcpBound, conn >>

\* --------------------------------------------------- main: broadcast_creation

\* broadcast_creation is entered: socket.set_broadcast(true).expect(..)
SetBroadcast ==
    /\ mainpc = "set_broadcast"
    /\ wire' = Append(wire, << >>)
    /\ \E ok \in BOOLEAN :
         /\ mainpc' = IF ok THEN "connect" ELSE PanicSetBroadcast
         /\ udp' = IF ok THEN [udp EXCEPT !.broadcast = TRUE] ELSE udp
    /\ UNCHANGED << bidx, bcastLog, lastDgram, responses, tcpBound, accpc, conn >>

\* socket.connect("239.255.255.250:1900")?
Connect ==
    /\ mainpc = "connect"
    /\ \E ok \in BOOLEAN :
         /\ mainpc' = IF ok THEN "broadcast" ELSE "exited"
         /\ udp' = IF ok THEN [udp EXCEPT !.peer = MulticastPeer] ELSE udp
    /\ UNCHANGED << bidx, wire, bcastLog, lastDgram, responses, tcpBound, accpc, conn >>

\* broadcast_creation(&socket, &root_device_url) as main calls it
Script == broadcast_creation(root_device_url)

\* variant: the listener's loop is entered once the root device is announced
AfterOp_listen_early ==
    IF bidx >= 5 THEN "recv" ELSE "broadcast"

\* where main goes after operation bidx of the broadcast went well
AfterOp == IF bidx = Len(Script)
           THEN "set_broadcast_false" ELSE "broadcast"

\* socket.send(parse_request_to_string(request).as_bytes())?
BroadcastSend ==
    /\ mainpc = "broadcast"
    /\ LET o == Script[bidx]
       IN  /\ o.op = "send"
           /\ \E ok \in BOOLEAN :
                /\ bcastLog' = Append(bcastLog, [op |-> "send", at |-> bidx, ok |-> ok])
                /\ wire' = [wire EXCEPT ![Len(wire)] =
                                Append(@, parse_request_to_string(o.request))]
                /\ IF send_result(ok) = "next"
                   THEN mainpc' = AfterOp /\ bidx' = bidx + 1
                   ELSE mainpc' = "exited" /\ bidx' = bidx
    /\ UNCHANGED << udp, lastDgram, responses, tcpBound, accpc, conn >>

\* tokio::time::sleep(Duration::from_millis(100)).await
BroadcastSleep ==
    /\ mainpc = "broadcast"
    /\ LET o == Script[bidx]
       IN  /\ o.op = "sleep"
           /\ bcastLog' = Append(bcastLog, [op |-> "sleep", at |-> bidx, ok |-> TRUE])
    /\ mainpc' = AfterOp
    /\ bidx' = bidx + 1
    /\ UNCHANGED << udp, wire, lastDgram, responses, tcpBound, accpc, conn >>

\* variant: broadcast_creation returns Ok without resetting the option
SetBroadcastFalse_forgotten ==
    /\ mainpc = "set_broadcast_false"
    /\ mainpc' = "recv"
    /\ UNCHANGED << bidx, udp, wire, bcastLog, lastDgram, responses, tcpBound, accpc, conn >>

\* socket.set_broadcast(false).expect(..); broadcast_creation returns Ok
SetBroadcastFalse ==
    /\ mainpc = "set_broadcast_false"
    /\ \E ok \in BOOLEAN :
         /\ mainpc' = IF ok THEN "recv" ELSE PanicSetBroadcastFalse
         /\ udp' = IF ok THEN [udp EXCEPT !.broadcast = FALSE] ELSE udp
    /\ UNCHANGED << bidx, wire, bcastLog, lastDgram, responses, tcpBound, accpc, conn >>

\* ------------------------------------------------- main: the listener's loop

\* one pass of the loop: recv_from, the scan of the lines, the send_to
Listen(D, A) ==
    /\ mainpc = "recv"
    /\ \E data \in D, src_addr \in A, ok \in BOOLEAN :
         LET dsts == handle_datagram(data, src_addr)
         IN  /\ lastDgram' = [data |-> data, src |-> src_addr]
             /\ responses' =
                   [i \in 1..Len(dsts) |->
                       [dst |-> dsts[i], text |-> search_response, ok |-> ok]]
             /\ mainpc' = IF dsts # << >> /\ send_to_result(ok) = "panic"
                          THEN PanicRespond ELSE "recv"
    /\ UNCHANGED << bidx, udp, wire, bcastLog, tcpBound, accpc, conn >>

\* socket.recv_from(&mut buf).expect("didn't receive data")
RecvFail ==
    /\ mainpc = "recv"
    /\ mainpc' = PanicRecv
    /\ UNCHANGED << bidx, udp, wire, bcastLog, lastDgram, responses, tcpBound, accpc, conn >>

\* ------------------------------------------------------- descriptor server

\* tcplistener.accept().await, then tokio::spawn of the connection's task
Accept(c) ==
    /\ ~MainDone
    /\ accpc = "accept"
    /\ conn[c].pc = "idle"
    /\ conn' = [conn EXCEPT ![c].pc = "read"]
    /\ UNCHANGED << accpc, mainVars >>

\* .expect("Failed to listen for tcp connection ")
AcceptFail ==
    /\ ~MainDone
    /\ accpc = "accept"
    /\ accpc' = "panicked"
    /\ UNCHANGED << conn, mainVars >>

\* socket.read gives Ok(0) or Err: the task returns
ConnClosed(c) ==
    /\ ~MainDone
    /\ conn[c].pc = "read"
    /\ conn' = [conn EXCEPT ![c].pc = "returned"]
    /\ UNCHANGED << accpc, mainVars >>

\* socket.read gives n > 0 bytes: decode, parse, choose the response
ConnRead(c, R, F) ==
    /\ ~MainDone
    /\ conn[c].pc = "read"
    /\ \E buf \in R, file \in F :
         LET h == handle_request(buf, file)
         IN  /\ conn' = [conn EXCEPT ![c].pc = CASE h.kind = "respond" -> "writable"
                                                  [] h.kind = "return" -> "returned"
                                                  [] OTHER -> "panicked",
                                     ![c].req = buf,
                                     ![c].file = h.file,
                                     ![c].resp = h.resp]
             /\ accpc' = IF h.kind = "panic" THEN task_panic(accpc) ELSE accpc
    /\ UNCHANGED mainVars

\* socket.writable().await.expect(..), write_all, flush().await.expect(..),
\* shutdown().await.expect(..), and back to the top of the loop
ConnRespond(c) ==
    /\ ~MainDone
    /\ conn[c].pc = "writable"
    /\ \E o \in write_outcomes(conn[c].wshut) :
         /\ conn' = [conn EXCEPT
                ![c].pc = CASE o = "ok" -> "read"
                            [] o = "write_err" -> "returned"
                            [] OTHER -> "panicked",
                ![c].nresp = IF o \in { "ok", "flush_err", "shutdown_err" } THEN @ + 1 ELSE @,
                ![c].wshut = IF o = "ok" THEN TRUE ELSE @,
                ![c].req = << >>,
                ![c].file = NotOpened,
                ![c].resp = << >>]
         /\ accpc' = IF o \in { "writable_err", "flush_err", "shutdown_err" }
                     THEN task_panic(accpc) ELSE accpc
    /\ UNCHANGED mainVars

\* ------------------------------------------------------ the specifications

\* the inputs of the specification of the whole program
CoreDatagrams == { DgramDial, DgramNoSt }
CoreAddrs == { "10.0.0.5:51000" }
CoreRequests ==
    { StreamRequest("GET", "/upnp_device_descriptor.xml"),
      << "GET", SP, "/" >> \o CRLF \o CRLF }
CoreFiles == { NoFile, << "<root/>" >> }

\* the whole program: main and the tasks it spawns
Next ==
    \/ BindUdp
    \/ BindTcp
    \/ SpawnAccept
    \/ SetBroadcast
    \/ Connect
    \/ BroadcastSend
    \/ BroadcastSleep
    \/ SetBroadcastFalse
    \/ Listen(CoreDatagrams, CoreAddrs)
    \/ RecvFail
    \/ AcceptFail
    \/ \E c \in Conns : Accept(c)
    \/ \E c \in Conns : ConnClosed(c)
    \/ \E c \in Conns : ConnRead(c, CoreRequests, CoreFiles)
    \/ \E c \in Conns : ConnRespond(c)

Spec == Init /\ [][Next]_vars

\* main alone, with every datagram of Datagrams
NextMain ==
    \/ BindUdp
    \/ BindTcp
    \/ SpawnAccept
    \/ SetBroadcast
    \/ Connect
    \/ BroadcastSend
    \/ BroadcastSleep
    \/ SetBroadcastFalse
    \/ Listen(Datagrams, Addrs)
    \/ RecvFail

SpecMain == Init /\ [][NextMain]_vars

\* the descriptor server alone, with every request of Requests
NextServer ==
    \/ BindUdp
    \/ BindTcp
    \/ SpawnAccept
    \/ AcceptFail
    \/ \E c \in Conns : Accept(c)
    \/ \E c \in Conns : ConnClosed(c)
    \/ \E c \in Conns : ConnRead(c, Requests, Files)
    \/ \E c \in Conns : ConnRespond(c)

SpecServer == Init /\ [][NextServer]_vars

\* the calls of broadcast_creation that SpecTwice makes
MaxRuns == 2

\* broadcast_creation(&socket, &root_device_url) called once more on the same
\* socket with the same URL.  main makes the call once; SpecTwice adds this
\* further call, after the first has returned, to set two runs side by side.
BroadcastAgain ==
    /\ mainpc = "recv"
    /\ Len(wire) < MaxRuns
    /\ mainpc' = "set_broadcast"
    /\ bidx' = 1
    /\ UNCHANGED << udp, wire, bcastLog, lastDgram, responses, tcpBound, accpc, conn >>

\* main with the broadcast run again
NextTwice ==
    \/ NextMain
    \/ BroadcastAgain

SpecTwice == Init /\ [][NextTwice]_vars

\* ------------------------------------------------- what the claims speak of

\* the value of the header `name` of a request (names compare without case)
HeaderOf(request, name) ==
    LET at == { i \in 1..Len(request.headers) : request.headers[i].name = HeaderName(name) }
    IN  IF at = { } THEN << >> ELSE request.headers[CHOOSE i \in at : TRUE].value

IsSend(e) == e.op = "send"

\* the sends of the broadcast so far, in order, and the requests they carried
Sends == SelectSeq(bcastLog, IsSend)
SentRequests == [i \in 1..Len(Sends) |-> Script[Sends[i].at].request]
SentNts == [i \in 1..Len(Sends) |-> HeaderOf(SentRequests[i], "NT")]

UuidSingleColon == format(<< << "uuid", COLON >>, ROOT_DEVICE_UUID >>)
BasicDeviceNt == UrnSchemasDevice \o << "Basic", COLON, "1" >>
RenderingControlNt == UrnSchemasService \o << "RenderingControl", COLON, "1" >>

\* the role of an advertisement, read off its NT
RoleOf(request) ==
    LET nt == HeaderOf(request, "NT")
    IN  CASE nt = RootDeviceNt -> "root device"
          [] nt # << >> /\ Head(nt) = "uuid" -> "device"
          [] nt = BasicDeviceNt -> "device type"
          [] nt = RenderingControlNt -> "service"
          [] OTHER -> "other"

\* broadcast_creation has returned Ok
BroadcastReturned == mainpc = "recv"

\* a datagram that is not text, or whose first line has fewer than 3 tokens
MalformedText(data) ==
    \/ ~from_utf8_ok(data)
    \/ lines(data) = << >>
    \/ Len(split(lines(data)[1], << SP >>)) < 3

\* ------------------------------------------------------------------ claims

\* C1: the listener makes exactly one send_to for a handled datagram, to the
\* datagram's source address, if a line of the datagram is exactly
\* "ST: urn:dial-multiscreen-org:service:dial:1", and none otherwise (the ST
\* line absent, another value, or a payload that is not text).
C1_OneReplyIffStLine ==
    lastDgram # NoDgram =>
        LET ls == IF from_utf8_ok(lastDgram.data) THEN lines(lastDgram.data) ELSE << >>
        IN  IF \E i \in 1..Len(ls) : ls[i] = StLine
            THEN /\ Len(responses) = 1
                 /\ responses[1].dst = lastDgram.src
                 /\ responses[1].text = search_response
            ELSE responses = << >>

C1_Witness ==
    /\ lastDgram = [data |-> DgramTwice, src |-> "10.0.0.6:0"]
    /\ Len(responses) = 1
    /\ responses[1].dst = "10.0.0.6:0"
    /\ mainpc = "recv"

\* C2 as claimed: a malformed datagram (not text, or a first line of fewer
\* than 3 tokens) never ends the listener; after handling one the listener is
\* in its receive loop again (unless recv_from itself failed).
C2_MalformedNeverTerminates ==
    (lastDgram # NoDgram /\ MalformedText(lastDgram.data)) => mainpc \in { "recv", PanicRecv }

\* C3 as claimed: a broadcast that returned Ok has sent exactly three
\* advertisements, with NT upnp:rootdevice, uuid:<device-id> and
\* urn:schemas-upnp-org:device:Basic:1, in this order.
C3_ThreeAdvertisements ==
    BroadcastReturned => SentNts = << RootDeviceNt, UuidSingleColon, BasicDeviceNt >>

SixRoles ==
    << "root device", "device", "device type", "device", "device type", "service" >>

\* C3 as amended: the broadcast sends six advertisements in the fixed order
\* root device, device, device type, device, device type, service
\* (RenderingControl); at every moment the sends made so far are the first
\* ones of this order, each has succeeded before the next was made, and a
\* broadcast that returned Ok has made all six and nothing else.
C3_SixAdvertisementsInOrder ==
    /\ Len(Sends) <= Len(SixRoles)
    /\ \A i \in 1..Len(Sends) :
         /\ RoleOf(SentRequests[i]) = SixRoles[i]
         /\ SentRequests[i].method = "NOTIFY"
         /\ i < Len(Sends) => Sends[i].ok
    /\ BroadcastReturned =>
         /\ Len(Sends) = Len(SixRoles)
         /\ \A i \in 1..Len(Sends) : Sends[i].ok
         /\ SentNts[1] = RootDeviceNt /\ SentNts[3] = BasicDeviceNt
         /\ SentNts[5] = BasicDeviceNt /\ SentNts[6] = RenderingControlNt

C3_Witness ==
    /\ BroadcastReturned
    /\ Len(Sends) = 6
    /\ RoleOf(SentRequests[4]) = "device"
    /\ RoleOf(SentRequests[6]) = "service"

\* C4 as claimed: every advertisement sent builds its USN from the device
\* identifier with a single colon after "uuid": uuid:<id>::upnp:rootdevice
\* for the root device, NT = USN = uuid:<id> for the device,
\* uuid:<id>::urn:schemas-upnp-org:device:Basic:1 for the device type.
C4_UsnSingleColon ==
    \A i \in 1..Len(Sends) :
        LET r == SentRequests[i]
            usn == HeaderOf(r, "USN")
            nt == HeaderOf(r, "NT")
        IN  /\ RoleOf(r) = "root device" =>
                 usn = UuidSingleColon \o << COLON, COLON >> \o RootDeviceNt
            /\ RoleOf(r) = "device" => nt = UuidSingleColon /\ usn = UuidSingleColon
            /\ RoleOf(r) = "device type" =>
                 usn = UuidSingleColon \o << COLON, COLON >> \o BasicDeviceNt

\* C5 as claimed: between any two consecutive sends of the broadcast there is
\* a sleep; no two sends follow each other directly.
C5_SleepBetweenSends ==
    \A i \in 1..(Len(bcastLog) - 1) :
        ~(bcastLog[i].op = "send" /\ bcastLog[i + 1].op = "send")

\* C6: a failed send of the broadcast is the last thing the broadcast does:
\* it is not repeated, nothing is sent after it, main has returned the error
\* and the listener has handled no datagram.
C6_SendFailureEndsBroadcast ==
    \A i \in 1..Len(bcastLog) :
        (bcastLog[i].op = "send" /\ ~bcastLog[i].ok) =>
            /\ i = Len(bcastLog)
            /\ \A j \in 1..(i - 1) : bcastLog[j].at # bcastLog[i].at
            /\ mainpc = "exited"
            /\ lastDgram = NoDgram
            /\ responses = << >>

C6_Witness ==
    /\ Len(Sends) = 2
    /\ ~Sends[2].ok
    /\ mainpc = "exited"

SevenKeys == { "HOST", "CACHE-CONTROL", "LOCATION", "NT", "NTS", "SERVER", "USN" }

\* C10: every advertisement sent has exactly seven headers, named HOST,
\* CACHE-CONTROL, LOCATION, NT, NTS, SERVER and USN (header names compare
\* without case), each once; HOST, CACHE-CONTROL, NTS and SERVER have their
\* fixed values and LOCATION is the root URL.
C10_SevenHeaders ==
    \A i \in 1..Len(Sends) :
        LET r == SentRequests[i]
        IN  /\ Len(r.headers) = 7
            /\ { r.headers[k].name : k \in 1..7 } = { HeaderName(n) : n \in SevenKeys }
            /\ HeaderOf(r, "HOST") = << "239.255.255.250", COLON, "1900" >>
            /\ HeaderOf(r, "CACHE-CONTROL") = << "max-age", SP, "=", SP, "900" >>
            /\ HeaderOf(r, "NTS") = << "ssdp", COLON, "alive" >>
            /\ HeaderOf(r, "SERVER") = HeaderOf(SentRequests[1], "SERVER")
            /\ HeaderOf(r, "SERVER") # << >>
            /\ HeaderOf(r, "LOCATION") = root_device_url

C10_Witness ==
    /\ Len(Sends) = 6
    /\ \A i \in 1..6 : Sends[i].ok
    /\ HeaderOf(SentRequests[1], "USN") # HeaderOf(SentRequests[6], "USN")
    /\ HeaderOf(SentRequests[1], "NT") # HeaderOf(SentRequests[6], "NT")

\* the parts of a response text
StatusLine(resp) == lines(resp)[1]

\* the header lines: the lines after the first, up to the first empty one
RECURSIVE UpToEmpty(_)
UpToEmpty(ls) ==
    IF ls = << >> \/ Head(ls) = << >> THEN << >> ELSE << Head(ls) >> \o UpToEmpty(Tail(ls))

HeaderLinesOf(resp) == UpToEmpty(Tail(lines(resp)))

\* the body: what follows the first empty line, empty if there is none
BodyOf(resp) ==
    LET k == FindFrom(resp, << LF, LF >>, 1)
    IN  IF k = 0 THEN << >> ELSE SubSeq(resp, k + 2, Len(resp))

\* the value of the content-type header of a response, up to its first space
ContentTypeOf(resp) ==
    LET hs == HeaderLinesOf(resp)
        at == { i \in 1..Len(hs) :
                  Len(hs[i]) >= 4 /\ hs[i][1] \in { "Content-Type", "content-type" }
                  /\ hs[i][2] = COLON /\ hs[i][3] = SP }
    IN  IF at = { } THEN "none" ELSE hs[CHOOSE i \in at : TRUE][4]

Ok200 == << "HTTP/1.1", SP, "200", SP, "OK" >>
NotFound404 == << "HTTP/1.1", SP, "404", SP, "Not", SP, "Found" >>
LandingBody == << "<html>", LF, "<body>TEST</body>", LF, "</html>" >>

MethodOf(req) == split(lines(req)[1], << SP >>)[1]
PathOf(req) == split(lines(req)[1], << SP >>)[2]

Terminal == { "returned", "panicked" }

\* C7: the response chosen for a parsed request depends on its method and
\* path alone: GET / gives 200 OK, text/html and the landing body;
\* GET /upnp_device_descriptor.xml gives 200 OK, application/xml and the
\* contents of the descriptor file as body; everything else gives 404 Not
\* Found.  Every parsed request gets its response chosen, except a GET of the
\* descriptor while the file cannot be read.
C7_Routing ==
    \A c \in Conns :
        /\ conn[c].pc = "writable" =>
             LET method == MethodOf(conn[c].req)
                 path == PathOf(conn[c].req)
                 resp == conn[c].resp
             IN  IF method = << "GET" >> /\ path = << "/" >>
                 THEN /\ StatusLine(resp) = Ok200
                      /\ ContentTypeOf(resp) = "text/html;"
                      /\ BodyOf(resp) = LandingBody
                 ELSE IF method = << "GET" >> /\ path = << "/upnp_device_descriptor.xml" >>
                 THEN /\ StatusLine(resp) = Ok200
                      /\ ContentTypeOf(resp) = "application/xml"
                      /\ conn[c].file \in Files \ { NoFile }
                      /\ BodyOf(resp) = conn[c].file
                 ELSE StatusLine(resp) = NotFound404
        /\ (conn[c].pc \in Terminal /\ conn[c].req # << >> /\ ~MalformedText(conn[c].req)) =>
             /\ MethodOf(conn[c].req) = << "GET" >>
             /\ PathOf(conn[c].req) = << "/upnp_device_descriptor.xml" >>
             /\ conn[c].file = NoFile

C7_Witness ==
    /\ conn[1].pc = "writable"
    /\ conn[1].req = StreamRequest("GET", "/upnp_device_descriptor.xml")
    /\ BodyOf(conn[1].resp) = << "<root>", LF, "</root>", LF >>
    /\ conn[2].pc = "writable"
    /\ conn[2].req = StreamRequest("POST", "/")
    /\ StatusLine(conn[2].resp) = NotFound404

\* C8 as claimed: a connection gets never more than one response, and a
\* connection whose request has been handled to the end of the task has got
\* one, also when the request was not text or had fewer than 3 tokens (the
\* descriptor file being readable).
C8_ExactlyOneResponse ==
    \A c \in Conns :
        /\ conn[c].nresp <= 1
        /\ (conn[c].pc \in Terminal /\ conn[c].req # << >> /\ conn[c].file # NoFile) =>
             conn[c].nresp = 1

\* C8 as amended: a connection gets at most one response, whatever the client
\* sends on it; it has got exactly one once a response was written, flushed
\* and the write half shut down; and it gets none when its first request is
\* not text (the task returns) or has fewer than 3 tokens on its first line
\* (the task panics).
C8_AtMostOneResponse ==
    \A c \in Conns :
        /\ conn[c].nresp <= 1
        /\ conn[c].wshut => conn[c].nresp = 1
        /\ (conn[c].pc \in Terminal /\ ~conn[c].wshut /\ conn[c].req # << >>
              /\ MalformedText(conn[c].req)) => conn[c].nresp = 0

C8_Witness ==
    /\ conn[1].wshut /\ conn[1].pc = "writable" /\ conn[1].nresp = 1
    /\ conn[2].pc = "returned" /\ ~from_utf8_ok(conn[2].req) /\ conn[2].nresp = 0

\* C9: a step in which a connection task ends (by a return or by a panic:
\* unreadable descriptor file, malformed request, failed socket call) changes
\* nothing but that connection: the accept task, every other connection and
\* main with its listener are as before.
C9_FailureIsolated ==
    [][\A c \in Conns :
          (conn[c].pc \notin Terminal /\ conn'[c].pc \in Terminal) =>
              /\ accpc' = accpc
              /\ mainVars' = mainVars
              /\ \A d \in Conns \ { c } : conn'[d] = conn[d]]_vars

\* one connection has panicked on the missing file, and the accept task, the
\* other connection and the listener have gone on
C9_Witness ==
    /\ conn[1].pc = "panicked" /\ conn[1].file = NoFile
    /\ conn[2].nresp = 1
    /\ accpc = "accept"
    /\ mainpc = "recv" /\ Len(responses) = 1 /\ responses[1].ok


\* the header names as the builders are given them: message 1 puts USN
\* before NTS, the other messages put it last
KeysAsGiven(i) ==
    IF i = 1 THEN << "HOST", "cache-control", "LOCATION", "NT", "USN", "NTS", "SERVER" >>
    ELSE << "HOST", "cache-control", "LOCATION", "NT", "NTS", "SERVER", "USN" >>

RECURSIVE KeyValueLines(_, _)
KeyValueLines(request, keys) ==
    IF keys = << >> THEN << >>
    ELSE << Head(keys), COLON, SP >> \o HeaderOf(request, Head(keys)) \o << CR, LF >>
            \o KeyValueLines(request, Tail(keys))

\* C11 as claimed: the text sent for an advertisement is "NOTIFY * HTTP/1.1"
\* and "\r\n", then one "Key: Value" line ended by "\r\n" for each header, in
\* the order of insertion and with the key spelled as it was given, then one
\* empty line "\r\n" and nothing more.
C11_SerializedAsGiven ==
    \A i \in 1..Len(Sends) :
        parse_request_to_string(SentRequests[i]) =
            << "NOTIFY", SP, "*", SP, "HTTP/1.1", CR, LF >>
                \o KeyValueLines(SentRequests[i], KeysAsGiven(i)) \o << CR, LF >>


\* a text in the wire framing: its status line and header lines each end with
\* "\r\n" and an empty line "\r\n" ends the header section
WireFramed(text) ==
    LET k == FindFrom(text, << CR, LF, CR, LF >>, 1)
    IN  /\ k # 0
        /\ \A i \in 1..k : text[i] = LF => (i > 1 /\ text[i - 1] = CR)

\* C12 as claimed: every search response and every response of the descriptor
\* server (the landing page, the descriptor, the 404) has each status and
\* header line ended by "\r\n" and its header section ended by an empty line.
C12_ResponsesWireFramed ==
    /\ \A i \in 1..Len(responses) : WireFramed(responses[i].text)
    /\ \A c \in Conns : conn[c].pc = "writable" => WireFramed(conn[c].resp)


\* the call of broadcast_creation numbered r has returned Ok
RunReturned(r) == r < Len(wire) \/ (r = Len(wire) /\ BroadcastReturned)

IsPrefix(s, t) == Len(s) <= Len(t) /\ SubSeq(t, 1, Len(s)) = s

\* C13: two runs of the broadcast with the same root URL give the socket the
\* same sequence of messages, byte for byte: a later run never sends anything
\* that the first run did not send at the same place, and once it has
\* returned it has sent all of it.
C13_BroadcastIdempotent ==
    \A r \in 2..Len(wire) :
        /\ IsPrefix(wire[r], wire[1])
        /\ RunReturned(r) => wire[r] = wire[1]

C13_Witness ==
    /\ Len(wire) = 2
    /\ RunReturned(2)
    /\ Len(wire[2]) = 6
    /\ wire[2][1] # wire[2][2]


\* the header mapping advertisement number i is built from: the names as the
\* builder is given them, each with its value
MappingAsGiven(i, request) ==
    { << << KeysAsGiven(i)[k] >>, HeaderOf(request, KeysAsGiven(i)[k]) >> :
        k \in 1..Len(KeysAsGiven(i)) }

\* the fields of the search response
SearchResponseFields ==
    { << << "LOCATION" >>,
         format(<< << "http", COLON, "//" >>, local_ip,
                   << COLON, "8081/upnp_device_descriptor.xml" >> >>) >>,
      << << "ST" >>, StValue >>,
      << << "USN" >>, << "testing-laptop" >> >> }

\* C14 as claimed: the text of every message the program builds, read back by
\* the rule for incoming headers (each line after the first split at ": " and
\* taken only if that gives two parts), gives the header mapping the message
\* was built from: for an advertisement the names and values given to the
\* builder, for the search response its LOCATION, ST and USN; same keys with
\* the same spelling, same values, none lost.
C14_HeadersRoundTrip ==
    /\ \A i \in 1..Len(wire) : \A j \in 1..Len(wire[i]) :
          parse_headers(wire[i][j]) = MappingAsGiven(j, Script[Sends[j].at].request)
    /\ \A i \in 1..Len(responses) :
          parse_headers(responses[i].text) = SearchResponseFields


\* a text whose first line has fewer than 3 tokens between single spaces
ShortFirstLine(data) ==
    /\ from_utf8_ok(data)
    /\ \/ lines(data) = << >>
       \/ Len(split(lines(data)[1], << SP >>)) < 3

\* C15 as claimed: a datagram whose first line has fewer than 3 tokens is
\* discarded: the listener sends no search response for it, even when one of
\* its lines, the first included, is the ST line.
C15_ShortFirstLineDiscarded ==
    (lastDgram # NoDgram /\ ShortFirstLine(lastDgram.data)) => responses = << >>


\* C16 as claimed: a send of a search response that fails is fatal to that one
\* attempt alone: it is not tried again and the listener goes on with the
\* next receive; nothing but a failure of the receive ends the loop.
C16_FailedResponseNotFatal ==
    /\ (\E i \in 1..Len(responses) : ~responses[i].ok) =>
          (Len(responses) = 1 /\ mainpc \in { "recv", PanicRecv })
    /\ (lastDgram # NoDgram /\ mainpc # "recv") => mainpc = PanicRecv


\* C17 as claimed: a connection goes from awaiting a request to responding to
\* closed and never back: once its response has been written in full its task
\* has ended, and it neither reads nor handles a further request.
C17_ClosedAfterResponse ==
    \A c \in Conns :
        conn[c].nresp > 0 =>
            /\ conn[c].pc \in Terminal
            /\ conn[c].req = << >>
            /\ conn[c].nresp = 1


\* main is inside its call of broadcast_creation
InBroadcast ==
    mainpc \in { "set_broadcast", "connect", "broadcast", "set_broadcast_false" }

\* C18: the datagram socket is used by one activity at a time.  Every send of
\* an advertisement comes before the listener's first receive, no search
\* response is sent while the broadcast is under way, and the broadcast runs
\* once: each of its operations is done at most once, in order, and all six
\* advertisements have been sent when the listener receives.
C18_SocketUsedSequentially ==
    /\ (lastDgram # NoDgram \/ responses # << >> \/ mainpc \in { "recv", PanicRecv, PanicRespond }) =>
          /\ ~InBroadcast
          /\ Len(wire) = 1
          /\ Len(wire[1]) = 6
          /\ \A i \in 1..Len(bcastLog) : bcastLog[i].ok /\ bcastLog[i].at = i
          /\ Len(bcastLog) = Len(Script)
    /\ InBroadcast => (lastDgram = NoDgram /\ responses = << >>)
    /\ Len(wire) <= 1
    /\ \A i \in 1..Len(bcastLog) : bcastLog[i].at = i

C18_Witness ==
    /\ mainpc = "recv"
    /\ responses # << >>
    /\ Len(wire) = 1
    /\ Len(wire[1]) = 6


\* C19: whenever the listener has sent a search response, the stream listener
\* is bound to port 8081 and the accept loop has been spawned: no response
\* names the descriptor address before its endpoint exists.
C19_ServerUpBeforeResponse ==
    responses # << >> => (tcpBound /\ accpc # "none")

C19_Witness ==
    /\ responses # << >>
    /\ responses[1].ok
    /\ tcpBound
    /\ accpc = "accept"
    /\ \E c \in Conns : conn[c].pc = "writable"


\* main is in the listener's loop, or has panicked in it
Listening == mainpc \in { "recv", PanicRecv, PanicRespond }

\* C20: in every state of the listener the socket's broadcast option is reset
\* to false and the socket is still connected to 239.255.255.250:1900; once
\* connected the socket is never disconnected; and the option stays true
\* after broadcast_creation only where that call failed.
C20_ListenerSocketState ==
    /\ Listening => (~udp.broadcast /\ udp.peer = MulticastPeer)
    /\ udp.peer \in { "none", MulticastPeer }
    /\ (bcastLog # << >> \/ mainpc \in { "broadcast", "set_broadcast_false" }) =>
          udp.peer = MulticastPeer
    /\ (udp.broadcast /\ ~InBroadcast) => mainpc \in { "exited", PanicSetBroadcastFalse }

C20_Witness ==
    /\ mainpc = "recv"
    /\ lastDgram # NoDgram
    /\ ~udp.broadcast
    /\ udp.peer = MulticastPeer
    /\ Len(wire[1]) = 6

\* a failed broadcast leaves the option set
C20_WitnessFailed ==
    /\ mainpc = "exited"
    /\ udp.broadcast
    /\ udp.peer = MulticastPeer


\* the texts the broadcast has given to the socket so far
SentTexts == UNION { Range(wire[i]) : i \in 1..Len(wire) }

\* C21: the listener never answers the program's own advertisements.  Each
\* of the NOTIFY texts the broadcast sent can come back to the listener
\* through the multicast loopback, and a datagram that is one of them causes
\* no search response: none of them has the ST line.
C21_NoReplyToOwnNotify ==
    /\ Listening => SentTexts \subseteq Datagrams
    /\ \A text \in SentTexts : StLine \notin Range(lines(text))
    /\ (lastDgram # NoDgram /\ lastDgram.data \in SentTexts) => responses = << >>

C21_Witness ==
    /\ mainpc = "recv"
    /\ Len(wire[1]) = 6
    /\ lastDgram.data = wire[1][6]
    /\ lastDgram.src = "192.168.178.9:1900"
    /\ responses = << >>

====
